---- MODULE Spec2Model ----
(***************************************************************************)
(* Model of TwoBodyDecay.py: the kinematics of a two body decay 0 --> 1 2  *)
(* and its Lorentz boosts.                                                 *)
(*                                                                         *)
(* Numbers.  The program computes with Python floats.  The model computes  *)
(* with exact values: a rational n/d is the pair <<n, d>> in lowest terms  *)
(* with d > 0, and the square root of a rational q that is not the square  *)
(* of a rational is the triple <<n, d, 2>> (a surd).  Surds only ever      *)
(* appear as the final result of getMassFromMomentum; the inputs of every  *)
(* specification are drawn from the values for which each square root that *)
(* feeds further arithmetic is rational, so no rounding is modelled.       *)
(*                                                                         *)
(* Exceptions.  A Python call either returns a value or raises; the result *)
(* of a call is the record [exc |-> "none", val |-> v] or                  *)
(* [exc |-> <exception name>, val |-> <filler>].                           *)
(***************************************************************************)
EXTENDS Integers, Sequences, FiniteSets, TLC

(* ------------------------------ bounds --------------------------------- *)
MaxMass == 5
MaxMom == 12
MaxComp == 2
MaxDen == 5

(* ------------------------- exact arithmetic ---------------------------- *)
Abs(n) == IF n < 0 THEN -n ELSE n

RECURSIVE GCD(_, _)
GCD(a, b) == IF b = 0 THEN a ELSE GCD(b, a % b)

Norm(n, d) ==
    LET g == GCD(Abs(n), Abs(d))
        s == IF d < 0 THEN -1 ELSE 1
    IN  <<(s * n) \div g, (s * d) \div g>>

Q(n) == <<n, 1>>
Zero == Q(0)
One == Q(1)
Half == <<1, 2>>

Add(a, b) == Norm(a[1] * b[2] + b[1] * a[2], a[2] * b[2])
Neg(a) == <<-a[1], a[2]>>
Sub(a, b) == Add(a, Neg(b))
Mul(a, b) == Norm(a[1] * b[1], a[2] * b[2])
Div(a, b) == Norm(a[1] * b[2], a[2] * b[1])
Sq(a) == Mul(a, a)
Less(a, b) == a[1] * b[2] < b[1] * a[2]
Leq(a, b) == a[1] * b[2] <= b[1] * a[2]

RECURSIVE ISqrtFrom(_, _)
ISqrtFrom(n, k) == IF (k + 1) * (k + 1) > n THEN k ELSE ISqrtFrom(n, k + 1)

ISqrt(n) == ISqrtFrom(n, 0)

IsSquare(n) == n >= 0 /\ ISqrt(n) * ISqrt(n) = n

RatSquare(a) == IsSquare(a[1]) /\ IsSquare(a[2])

(* ------------------------- results of calls ---------------------------- *)
Ok(v) == [exc |-> "none", val |-> v]
Raise(e) == [exc |-> e, val |-> Zero]

ZeroVec == [e |-> Zero, px |-> Zero, py |-> Zero, pz |-> Zero]
RaiseVec(e) == [exc |-> e, val |-> ZeroVec]

(* math.sqrt: ValueError (math domain error) on a negative argument *)
MathSqrt(a) ==
    IF Less(a, Zero) THEN Raise("ValueError")
    ELSE IF RatSquare(a) THEN Ok(<<ISqrt(a[1]), ISqrt(a[2])>>)
    ELSE Ok(<<a[1], a[2], 2>>)

(* --------------------------- the functions ----------------------------- *)
getBeta(m, p) ==
    LET den == Add(Sq(m), Sq(p))
    IN  IF den = Zero THEN Raise("ZeroDivisionError")
        ELSE MathSqrt(Div(Sq(p), den))

(* getGamma with the reciprocal left out *)
getGamma_NoReciprocal(beta) ==
    LET r == MathSqrt(Sub(One, Sq(beta)))
    IN  IF r.exc # "none" THEN r
        ELSE IF r.val = Zero THEN Raise("ZeroDivisionError")
        ELSE Ok(r.val)

getGamma(beta) ==
    LET r == MathSqrt(Sub(One, Sq(beta)))
    IN  IF r.exc # "none" THEN r
        ELSE IF r.val = Zero THEN Raise("ZeroDivisionError")
        ELSE Ok(Div(One, r.val))

MassSq(p) == Sub(Sub(Sub(Sq(p.e), Sq(p.px)), Sq(p.py)), Sq(p.pz))

getMassFromMomentum(p) == MathSqrt(MassSq(p))

(* lorentzBoost with the y branch taking px in the energy term *)
lorentzBoost_ySlip(p0, beta, direction) ==
    LET g == getGamma(beta)
        gamma == g.val
    IN  IF g.exc # "none" THEN RaiseVec(g.exc)
        ELSE IF direction = "x" THEN
            Ok([e  |-> Mul(gamma, Sub(p0.e, Mul(beta, p0.px))),
                px |-> Mul(gamma, Sub(p0.px, Mul(beta, p0.e))),
                py |-> p0.py,
                pz |-> p0.pz])
        ELSE IF direction = "y" THEN
            Ok([e  |-> Mul(gamma, Sub(p0.e, Mul(beta, p0.px))),
                px |-> p0.px,
                py |-> Mul(gamma, Sub(p0.py, Mul(beta, p0.e))),
                pz |-> p0.pz])
        ELSE
            Ok([e  |-> Mul(gamma, Sub(p0.e, Mul(beta, p0.px))),
                px |-> p0.px,
                py |-> p0.py,
                pz |-> Mul(gamma, Sub(p0.pz, Mul(beta, p0.e)))])

(* lorentzBoost with gamma left out of the boosted momentum component *)
lorentzBoost_NoGamma(p0, beta, direction) ==
    LET g == getGamma(beta)
        gamma == g.val
    IN  IF g.exc # "none" THEN RaiseVec(g.exc)
        ELSE IF direction = "x" THEN
            Ok([e  |-> Mul(gamma, Sub(p0.e, Mul(beta, p0.px))),
                px |-> Sub(p0.px, Mul(beta, p0.e)),
                py |-> p0.py,
                pz |-> p0.pz])
        ELSE IF direction = "y" THEN
            Ok([e  |-> Mul(gamma, Sub(p0.e, Mul(beta, p0.py))),
                px |-> p0.px,
                py |-> Sub(p0.py, Mul(beta, p0.e)),
                pz |-> p0.pz])
        ELSE
            Ok([e  |-> Mul(gamma, Sub(p0.e, Mul(beta, p0.px))),
                px |-> p0.px,
                py |-> p0.py,
                pz |-> Sub(p0.pz, Mul(beta, p0.e))])

lorentzBoost(p0, beta, direction) ==
    LET g == getGamma(beta)
        gamma == g.val
    IN  IF g.exc # "none" THEN RaiseVec(g.exc)
        ELSE IF direction = "x" THEN
            Ok([e  |-> Mul(gamma, Sub(p0.e, Mul(beta, p0.px))),
                px |-> Mul(gamma, Sub(p0.px, Mul(beta, p0.e))),
                py |-> p0.py,
                pz |-> p0.pz])
        ELSE IF direction = "y" THEN
            Ok([e  |-> Mul(gamma, Sub(p0.e, Mul(beta, p0.py))),
                px |-> p0.px,
                py |-> Mul(gamma, Sub(p0.py, Mul(beta, p0.e))),
                pz |-> p0.pz])
        ELSE
            Ok([e  |-> Mul(gamma, Sub(p0.e, Mul(beta, p0.px))),
                px |-> p0.px,
                py |-> p0.py,
                pz |-> Mul(gamma, Sub(p0.pz, Mul(beta, p0.e)))])

NoMomenta == [p1 |-> Zero, p2 |-> Zero]

restFrameMomenta(m0, m1, m2) ==
    LET r == MathSqrt(Sub(Sq(m0), Sq(Add(m1, m2))))
        p1 == Mul(Half, r.val)
        p2 == Neg(p1)
    IN  IF r.exc # "none" THEN [exc |-> r.exc, val |-> NoMomenta]
        ELSE Ok([p1 |-> p1, p2 |-> p2])

NoDecay == [p1 |-> ZeroVec, p2 |-> ZeroVec]

restFrameDecay(m0, m1, m2) ==
    LET dm == restFrameMomenta(m0, m1, m2)
        daughter_momenta == dm.val
    IN  IF dm.exc # "none" THEN [exc |-> dm.exc, val |-> NoDecay]
        ELSE Ok([p1 |-> [e  |-> MathSqrt(Add(Sq(m1), Sq(daughter_momenta.p1))).val,
                         px |-> daughter_momenta.p1,
                         py |-> Zero,
                         pz |-> Zero],
                 p2 |-> [e  |-> MathSqrt(Add(Sq(m2), Sq(daughter_momenta.p2))).val,
                         px |-> daughter_momenta.p2,
                         py |-> Zero,
                         pz |-> Zero]])

(* printDecay: the three masses are computed before anything is printed,   *)
(* so a raise prints no table.  A printed table is kept as the masses and  *)
(* the three four-momenta; the printed |p| row is a function of those.     *)
NoTable == [m |-> <<Zero, Zero, Zero>>, p |-> <<ZeroVec, ZeroVec, ZeroVec>>]

printDecay(p0, p1, p2) ==
    LET m0 == getMassFromMomentum(p0)
        m1 == getMassFromMomentum(p1)
        m2 == getMassFromMomentum(p2)
    IN  IF m0.exc # "none" THEN [exc |-> m0.exc, val |-> NoTable]
        ELSE IF m1.exc # "none" THEN [exc |-> m1.exc, val |-> NoTable]
        ELSE IF m2.exc # "none" THEN [exc |-> m2.exc, val |-> NoTable]
        ELSE Ok([m |-> <<m0.val, m1.val, m2.val>>, p |-> <<p0, p1, p2>>])

(* ------------------------------- state --------------------------------- *)
VARIABLES
    m0, p0, m1, m2,   \* arguments of decayParticle
    pc,               \* position in decayParticle
    rest,             \* <<p0_rest, p1_rest, p2_rest>>
    beta,             \* beta of the mother in the lab frame
    titles,           \* the frame titles printed so far
    records,          \* the decay tables printed so far
    exc,              \* exception that ended decayParticle, or "none"
    bp, bbeta, baxis, \* arguments of a single lorentzBoost call
    bstage,           \* position in the single-call scenario
    bgamma,           \* result of getGamma(bbeta)
    bout,             \* result of lorentzBoost(bp, bbeta, baxis)
    bback,            \* result of lorentzBoost(bout, -bbeta, baxis)
    bmass             \* <<getMassFromMomentum(bp), getMassFromMomentum(bout)>>

decayVars == <<m0, p0, m1, m2, pc, rest, beta, titles, records, exc>>
boostVars == <<bp, bbeta, baxis, bstage, bgamma, bout, bback, bmass>>
vars == <<m0, p0, m1, m2, pc, rest, beta, titles, records, exc,
          bp, bbeta, baxis, bstage, bgamma, bout, bback, bmass>>

(* ------------------------------ inputs --------------------------------- *)
(* 10, 45 and 73 complete the grid with the smallest integer decay with    *)
(* m1 # m2, a non-zero rest-frame momentum and rational energies.          *)
MassValues == (-MaxMass .. MaxMass) \cup {10, 45, 73}
MomValues == 0 .. MaxMom

(* every square root that decayParticle feeds into further arithmetic is   *)
(* rational                                                                *)
ExactArgs(a0, q0, a1, a2) ==
    LET d == Sub(Sq(a0), Sq(Add(a1, a2)))
        psq == Div(d, Q(4))
        b2 == Div(Sq(q0), Add(Sq(a0), Sq(q0)))
    IN  IF Less(d, Zero) THEN TRUE
        ELSE /\ RatSquare(d)
             /\ RatSquare(Add(Sq(a1), psq))
             /\ RatSquare(Add(Sq(a2), psq))
             /\ IF q0 = Zero THEN TRUE
                ELSE RatSquare(b2) /\ RatSquare(Sub(One, b2))

BoostIdle ==
    /\ bp = ZeroVec /\ bbeta = Zero /\ baxis = "x" /\ bstage = "idle"
    /\ bgamma = Raise("none") /\ bout = RaiseVec("none")
    /\ bback = RaiseVec("none") /\ bmass = <<Raise("none"), Raise("none")>>

DecayIdle ==
    /\ m0 = Zero /\ p0 = Zero /\ m1 = Zero /\ m2 = Zero
    /\ pc = "idle" /\ rest = <<ZeroVec, ZeroVec, ZeroVec>> /\ beta = Zero
    /\ titles = <<>> /\ records = <<>> /\ exc = "none"

Init ==
    /\ \E a0 \in MassValues, q0 \in MomValues, a1 \in MassValues, a2 \in MassValues :
          /\ ExactArgs(Q(a0), Q(q0), Q(a1), Q(a2))
          /\ m0 = Q(a0) /\ p0 = Q(q0) /\ m1 = Q(a1) /\ m2 = Q(a2)
    /\ pc = "start"
    /\ rest = <<ZeroVec, ZeroVec, ZeroVec>>
    /\ beta = Zero
    /\ titles = <<>>
    /\ records = <<>>
    /\ exc = "none"
    /\ BoostIdle

(* --------------------------- decayParticle ----------------------------- *)
Fail(e) ==
    /\ pc' = "failed"
    /\ exc' = e

(* lines 115-122: the rest frame decay and its table *)
RestFrame ==
    /\ pc = "start"
    /\ LET rest_frame_decay == restFrameDecay(m0, m1, m2)
           p0_rest == [e |-> m0, px |-> Zero, py |-> Zero, pz |-> Zero]
           p1_rest == rest_frame_decay.val.p1
           p2_rest == rest_frame_decay.val.p2
           table == printDecay(p0_rest, p1_rest, p2_rest)
       IN  IF rest_frame_decay.exc # "none"
           THEN /\ Fail(rest_frame_decay.exc)
                /\ UNCHANGED <<rest, titles, records>>
           ELSE /\ titles' = Append(titles, "Rest frame decay")
                /\ rest' = <<p0_rest, p1_rest, p2_rest>>
                /\ IF table.exc # "none"
                   THEN Fail(table.exc) /\ UNCHANGED records
                   ELSE /\ records' = Append(records, table.val)
                        /\ pc' = "rest"
                        /\ UNCHANGED exc
    /\ UNCHANGED <<m0, p0, m1, m2, beta>>
    /\ UNCHANGED boostVars

(* line 124: if p0 == 0: return *)
ReturnAtRest ==
    /\ pc = "rest"
    /\ p0 = Zero
    /\ pc' = "done"
    /\ UNCHANGED <<m0, p0, m1, m2, rest, beta, titles, records, exc>>
    /\ UNCHANGED boostVars

(* line 127: beta = getBeta(m0, p0) *)
ComputeBeta ==
    /\ pc = "rest"
    /\ p0 # Zero
    /\ LET b == getBeta(m0, p0)
       IN  IF b.exc # "none"
           THEN Fail(b.exc) /\ UNCHANGED beta
           ELSE beta' = b.val /\ pc' = "beta" /\ UNCHANGED exc
    /\ UNCHANGED <<m0, p0, m1, m2, rest, titles, records>>
    /\ UNCHANGED boostVars

(* the three lorentzBoost calls of one frame followed by printDecay *)
boostedTable(b, direction) ==
    LET q0 == lorentzBoost(rest[1], b, direction)
        q1 == lorentzBoost(rest[2], b, direction)
        q2 == lorentzBoost(rest[3], b, direction)
    IN  IF q0.exc # "none" THEN [exc |-> q0.exc, val |-> NoTable]
        ELSE IF q1.exc # "none" THEN [exc |-> q1.exc, val |-> NoTable]
        ELSE IF q2.exc # "none" THEN [exc |-> q2.exc, val |-> NoTable]
        ELSE printDecay(q0.val, q1.val, q2.val)

BoostFrame(from, to, title, b, direction) ==
    /\ pc = from
    /\ titles' = Append(titles, title)
    /\ LET table == boostedTable(b, direction)
       IN  IF table.exc # "none"
           THEN Fail(table.exc) /\ UNCHANGED records
           ELSE /\ records' = Append(records, table.val)
                /\ pc' = to
                /\ UNCHANGED exc
    /\ UNCHANGED <<m0, p0, m1, m2, rest, beta>>
    /\ UNCHANGED boostVars

(* lines 130-135 *)
BoostAlong1 ==
    BoostFrame("beta", "boost1", "Boost along particle 1 momentum", Neg(beta), "x")

(* the second boost taking the sign of the first *)
BoostAlong2_SameSign ==
    BoostFrame("boost1", "boost2", "Boost along particle 2 momentum", Neg(beta), "x")

(* lines 138-143 *)
BoostAlong2 ==
    BoostFrame("boost1", "boost2", "Boost along particle 2 momentum", beta, "x")

(* lines 146-151 *)
BoostPerp ==
    BoostFrame("boost2", "done",
               "Boost perpendicular to particle 1 and particle 2", Neg(beta), "y")

Next ==
    \/ RestFrame
    \/ ReturnAtRest
    \/ ComputeBeta
    \/ BoostAlong1
    \/ BoostAlong2
    \/ BoostPerp

Spec == Init /\ [][Next]_vars

(* ------------------- a single call of lorentzBoost --------------------- *)
Components == {Q(i) : i \in -MaxComp .. MaxComp}
Energies == {Q(i) : i \in 0 .. MaxComp}

FourMomenta == [e : Energies, px : Components, py : Components, pz : Components]

(* beta = n/d for which gamma is rational, or for which gamma fails *)
ExactBeta(b) ==
    LET r == Sub(One, Sq(b))
    IN  IF Less(r, Zero) THEN TRUE ELSE RatSquare(r)

BetaValues ==
    {b \in {Norm(n, d) : n \in -(MaxDen + 1) .. (MaxDen + 1), d \in 1 .. MaxDen} :
        ExactBeta(b)}

Axes == {"x", "y", "z"}

InitBoost ==
    /\ DecayIdle
    /\ bp \in FourMomenta
    /\ bbeta \in BetaValues
    /\ baxis \in Axes
    /\ bstage = "input"
    /\ bgamma = Raise("none")
    /\ bout = RaiseVec("none")
    /\ bback = RaiseVec("none")
    /\ bmass = <<Raise("none"), Raise("none")>>

EvalGamma ==
    /\ bstage = "input"
    /\ bgamma' = getGamma(bbeta)
    /\ bstage' = "gamma"
    /\ UNCHANGED <<bp, bbeta, baxis, bout, bback, bmass>>
    /\ UNCHANGED decayVars

Boost ==
    /\ bstage = "gamma"
    /\ bout' = lorentzBoost(bp, bbeta, baxis)
    /\ bstage' = IF bout'.exc = "none" THEN "boosted" ELSE "failed"
    /\ UNCHANGED <<bp, bbeta, baxis, bgamma, bback, bmass>>
    /\ UNCHANGED decayVars

BoostBack ==
    /\ bstage = "boosted"
    /\ bback' = lorentzBoost(bout.val, Neg(bbeta), baxis)
    /\ bstage' = "returned"
    /\ UNCHANGED <<bp, bbeta, baxis, bgamma, bout, bmass>>
    /\ UNCHANGED decayVars

MeasureMass ==
    /\ bstage = "returned"
    /\ bmass' = <<getMassFromMomentum(bp), getMassFromMomentum(bout.val)>>
    /\ bstage' = "measured"
    /\ UNCHANGED <<bp, bbeta, baxis, bgamma, bout, bback>>
    /\ UNCHANGED decayVars

NextBoost ==
    \/ EvalGamma
    \/ Boost
    \/ BoostBack
    \/ MeasureMass

SpecBoost == InitBoost /\ [][NextBoost]_vars

(* ============================ properties =============================== *)
NonNegative(a) == Leq(Zero, a)
Positive(a) == Less(Zero, a)

(* all masses >= 0 and m0 >= m1 + m2 *)
Feasible ==
    /\ NonNegative(m0) /\ NonNegative(m1) /\ NonNegative(m2)
    /\ Leq(Add(m1, m2), m0)

Ended == pc \in {"done", "failed"}

(* C1: for masses >= 0 with m0 >= m1 + m2, the daughters returned by       *)
(* restFrameDecay have energies that sum to m0, opposite x-momenta and     *)
(* py = pz = 0.                                                            *)
C1_RestFrameConservation ==
    (Feasible /\ pc \notin {"start", "failed"}) =>
        /\ Add(rest[2].e, rest[3].e) = m0
        /\ rest[2].px = Neg(rest[3].px)
        /\ rest[2].py = Zero /\ rest[2].pz = Zero
        /\ rest[3].py = Zero /\ rest[3].pz = Zero

(* C5: whenever m0 < m1 + m2 the decay fails: no rest-frame momenta are    *)
(* returned and no decay record is emitted.                                *)
C5_ForbiddenDecayFails ==
    Less(m0, Add(m1, m2)) =>
        /\ records = <<>>
        /\ pc \in {"start", "failed"}

(* C8: if any of m0, m1, m2 is negative the orchestrator fails at entry,   *)
(* before computing or emitting any decay record.                          *)
C8_NegativeMassFails ==
    (Less(m0, Zero) \/ Less(m1, Zero) \/ Less(m2, Zero)) =>
        /\ records = <<>>
        /\ pc \in {"start", "failed"}

(* the boost of the i-th record: record 2 is (x, -beta), record 3 is       *)
(* (x, +beta), record 4 is (y, -beta), with beta = beta(m0, p0)            *)
FrameAxis(i) == IF i = 4 THEN "y" ELSE "x"
FrameBeta(i) == IF i = 3 THEN getBeta(m0, p0).val ELSE Neg(getBeta(m0, p0).val)

RecordsInOrder ==
    /\ Len(records) <= 4
    /\ Len(records) >= 1 =>
          /\ records[1].p[1] = [e |-> m0, px |-> Zero, py |-> Zero, pz |-> Zero]
          /\ records[1].p[2] = restFrameDecay(m0, m1, m2).val.p1
          /\ records[1].p[3] = restFrameDecay(m0, m1, m2).val.p2
    /\ \A i \in 2 .. Len(records) : \A k \in 1 .. 3 :
          records[i].p[k] =
              lorentzBoost(records[1].p[k], FrameBeta(i), FrameAxis(i)).val
    /\ (Len(records) >= 2) => p0 # Zero

(* C6 as stated: for feasible inputs the records come in the fixed order,  *)
(* and a run ends with one record if p0 = 0 and with four if p0 > 0.       *)
C6_AsStated ==
    Feasible =>
        /\ RecordsInOrder
        /\ pc # "start" => Len(records) >= 1
        /\ Ended => Len(records) = (IF p0 = Zero THEN 1 ELSE 4)

(* C6 amended: for feasible inputs the records come in the fixed order     *)
(* rest, (x, -beta), (x, +beta), (y, -beta); a run that returns has        *)
(* emitted one record if p0 = 0 and four if p0 > 0; a run fails only when  *)
(* m0 = 0 and p0 > 0 (beta = 1), and then only the rest-frame record has   *)
(* been emitted.                                                           *)
C6_RecordOrder ==
    Feasible =>
        /\ RecordsInOrder
        /\ pc # "start" => Len(records) >= 1
        /\ pc = "done" => Len(records) = (IF p0 = Zero THEN 1 ELSE 4)
        /\ pc = "failed" =>
              /\ m0 = Zero /\ Positive(p0)
              /\ Len(records) = 1
              /\ exc = "ZeroDivisionError"

C6_Witness ==
    /\ Feasible /\ pc = "done" /\ Len(records) = 4
    /\ records[2] # records[3]
    /\ records[1].p[2].px # Zero

(* C7: for feasible inputs with m0 > 0 and p0 > 0 four records are         *)
(* produced and in each the recomputed masses equal m0, m1, m2.            *)
C7_MassFrameIndependent ==
    (Feasible /\ Positive(m0) /\ Positive(p0)) =>
        /\ pc # "failed"
        /\ pc = "done" => Len(records) = 4
        /\ \A i \in 1 .. Len(records) : records[i].m = <<m0, m1, m2>>

C7_Witness ==
    /\ Feasible /\ Positive(m0) /\ Positive(p0)
    /\ pc = "done" /\ Len(records) = 4
    /\ Positive(m1) /\ Positive(m2)
    /\ rest[2].px # Zero

(* C10: for feasible inputs with m0 > 0 and p0 > 0 the mother has energy   *)
(* sqrt(m0^2 + p0^2) in each boosted record, px = +p0 in record 2,         *)
(* px = -p0 in record 3, py = +p0 in record 4, other components 0.         *)
MotherEnergy == MathSqrt(Add(Sq(m0), Sq(p0))).val

C10_MotherBoosted ==
    (Feasible /\ Positive(m0) /\ Positive(p0)) =>
        /\ Len(records) >= 2 => records[2].p[1] =
              [e |-> MotherEnergy, px |-> p0, py |-> Zero, pz |-> Zero]
        /\ Len(records) >= 3 => records[3].p[1] =
              [e |-> MotherEnergy, px |-> Neg(p0), py |-> Zero, pz |-> Zero]
        /\ Len(records) >= 4 => records[4].p[1] =
              [e |-> MotherEnergy, px |-> Zero, py |-> p0, pz |-> Zero]

C10_Witness ==
    /\ Feasible /\ Positive(m0) /\ Positive(p0)
    /\ pc = "done" /\ Len(records) = 4
    /\ records[4].p[1].py = p0

(* ---------------------- single call of lorentzBoost -------------------- *)
Along(p, axis) == IF axis = "x" THEN p.px ELSE IF axis = "y" THEN p.py ELSE p.pz

AbsLessOne(b) == Less(Sq(b), One)

Boosted == bstage \in {"boosted", "returned", "measured"}

(* C2: boost(p, beta, axis) returns e' = gamma (e - beta u) and            *)
(* u' = gamma (u - beta e) with u the component of p along that axis, and  *)
(* the two other components unchanged.                                     *)
C2_BoostFormula ==
    Boosted =>
        LET u == Along(bp, baxis)
            g == bgamma.val
            r == bout.val
        IN  /\ r.e = Mul(g, Sub(bp.e, Mul(bbeta, u)))
            /\ Along(r, baxis) = Mul(g, Sub(u, Mul(bbeta, bp.e)))
            /\ baxis # "x" => r.px = bp.px
            /\ baxis # "y" => r.py = bp.py
            /\ baxis # "z" => r.pz = bp.pz

OnShell(p) == NonNegative(MassSq(p)) /\ Positive(p.e)

(* C3: for on-shell p, |beta| < 1 and every axis, the invariant mass of    *)
(* boost(p, beta, axis) equals the invariant mass of p.                    *)
C3_MassPreserved ==
    (bstage = "measured" /\ OnShell(bp)) =>
        /\ bmass[2] = bmass[1]
        /\ MassSq(bout.val) = MassSq(bp)

(* C4: boosting by beta and then by -beta along the same axis returns the  *)
(* original four-momentum in all four components.                          *)
C4_RoundTrip ==
    bstage \in {"returned", "measured"} => bback = Ok(bp)

(* C9: gamma(beta), and with it boost(p, beta, axis), fails for every      *)
(* |beta| >= 1; for |beta| < 1 gamma returns 1/sqrt(1 - beta^2), which is  *)
(* >= 1 and is 1 exactly when beta = 0.                                    *)
C9_Gamma ==
    bstage \notin {"idle", "input"} =>
        IF AbsLessOne(bbeta)
        THEN /\ bgamma.exc = "none"
             /\ Positive(bgamma.val)
             /\ Mul(Sq(bgamma.val), Sub(One, Sq(bbeta))) = One
             /\ Leq(One, bgamma.val)
             /\ (bgamma.val = One) <=> (bbeta = Zero)
             /\ bstage # "failed"
        ELSE /\ bgamma.exc \in {"ValueError", "ZeroDivisionError"}
             /\ bstage \in {"gamma", "failed"}
             /\ bstage = "failed" => bout.exc = bgamma.exc

C9_Witness ==
    /\ bstage = "failed"
    /\ bbeta = <<5, 4>>
    /\ bgamma.exc = "ValueError"
    /\ bout.exc = "ValueError"

====
